---- MODULE Spec2Model ----
(***************************************************************************)
(* Model of the persistence boundary of Pulse (libsv/headers-client):      *)
(*   - database.Init / Connect / DoMigrations / NewDBAdapter               *)
(*   - dto.DbMerkleRootConfirmation.ToMerkleRootConfirmation and           *)
(*     dto.ConvertToMerkleRootsConfirmations                               *)
(*   - dto.ToDbBlockHeader, dto.DbBlockHeader.ToBlockHeader and            *)
(*     dto.ConvertToBlockHeader                                            *)
(***************************************************************************)
EXTENDS Integers, Sequences, FiniteSets, TLC

VARIABLES
    \* ---- merkle-root confirmation conversion (dto) ----
    mrPc,       \* position inside ConvertToMerkleRootsConfirmations
    mrIn,       \* argument dbMerkleConfms, a slice: [isNil, elems]
    mrExcess,   \* argument maxBlockHeightExcess
    mrIdx,      \* range index of the loop (1-based)
    mrOut,      \* local merklesConfms, the slice that is returned
    \* ---- database package ----
    cfgType,        \* cfg.DbConfig.Type
    cfgPreparedDb,  \* cfg.DbConfig.PreparedDb
    dbPc,           \* position of the running call
    dbEntry,        \* exported function the caller invoked
    dbLocal,        \* the db handle the running function holds
    dbRet,          \* what the call returned: [db, err]
    dbCalls,        \* operations invoked by the running call, with results
    dbHeld,         \* handle the caller kept from an earlier call
    dbRuns,         \* calls made so far
    \* ---- block header conversion (dto) ----
    hdPc,       \* position inside ConvertToBlockHeader
    hdSrc,      \* the domain headers the rows were made from, if any
    hdOrig,     \* the rows as they were when the call began
    hdIn,       \* argument dbBlockHeaders: the rows the slice points to
    hdIdx,      \* range index of the loop (1-based)
    hdOut       \* local blockHeaders, the slice that is returned

mrVars == <<mrPc, mrIn, mrExcess, mrIdx, mrOut>>

dbVars == <<cfgType, cfgPreparedDb, dbPc, dbEntry, dbLocal, dbRet, dbCalls,
            dbHeld, dbRuns>>

hdVars == <<hdPc, hdSrc, hdOrig, hdIn, hdIdx, hdOut>>

vars == <<mrPc, mrIn, mrExcess, mrIdx, mrOut,
          cfgType, cfgPreparedDb, dbPc, dbEntry, dbLocal, dbRet, dbCalls,
          dbHeld, dbRuns,
          hdPc, hdSrc, hdOrig, hdIn, hdIdx, hdOut>>

-----------------------------------------------------------------------------
(* Bounds of the model *)

\* heights 0..MaxLowHeight and MaxInt32-MaxLowHeight..MaxInt32 are enumerated
MaxLowHeight == 8
\* maxBlockHeightExcess values 0..MaxSmallExcess are enumerated
MaxSmallExcess == 7
\* longest slice handed to a Convert* function
MaxRows == 2
\* calls of the database package made one after the other by the caller
MaxRuns == 2
\* longest chainwork / cumulatedWork column read from the database
MaxWorkLen == 2
\* work values 0..MaxSmallWork are enumerated
MaxSmallWork == 11
\* bytes of a hash (the program uses 32)
HashSize == 2

-----------------------------------------------------------------------------
(* int32 arithmetic as Go performs it *)

MaxInt32 == 2147483647

MinInt32 == (-MaxInt32) - 1

\* a - b on int32 operands, wrapping modulo 2^32 (Go spec: integer overflow)
Sub32(a, b) ==
    IF b >= 0
    THEN IF a < MinInt32 + b
         THEN ((a - MinInt32) + (MaxInt32 - b)) + 1     \* a - b + 2^32
         ELSE a - b
    ELSE IF a > MaxInt32 + b
         THEN ((a - MaxInt32) + (MinInt32 - b)) - 1     \* a - b - 2^32
         ELSE a - b

\* int32(m + 1) for an int m in 0..MaxInt32: the sum is formed in int and
\* truncated to 32 bits, so MaxInt32 + 1 becomes MinInt32
Int32OfSucc(m) == IF m = MaxInt32 THEN MinInt32 ELSE m + 1

-----------------------------------------------------------------------------
(* Slices: Go distinguishes the nil slice from an empty non-nil one *)

NilSlice == [isNil |-> TRUE, elems |-> <<>>]

MakeSlice == [isNil |-> FALSE, elems |-> <<>>]

SliceOf(s) == [isNil |-> FALSE, elems |-> s]

\* append(s, x): the result is never nil
AppendSlice(s, x) == [isNil |-> FALSE, elems |-> Append(s.elems, x)]

-----------------------------------------------------------------------------
(* domains.MerkleRootConfirmationState *)

Confirmed == "CONFIRMED"

UnableToVerify == "UNABLE_TO_VERIFY"

Invalid == "INVALID"

ConfirmationStates == {Confirmed, UnableToVerify, Invalid}

\* sql.NullString
NullHash == [String |-> "", Valid |-> FALSE]

SomeHash(h) == [String |-> h, Valid |-> TRUE]

ToMerkleRootConfirmationOffByOne(row, maxBlockHeightExcess) ==
    LET confmState ==
            IF row.Hash.Valid
            THEN Confirmed
            ELSE IF /\ row.BlockHeight > row.TipHeight
                    /\ Sub32(row.BlockHeight, row.TipHeight)
                         <= Int32OfSucc(maxBlockHeightExcess)
                 THEN UnableToVerify
                 ELSE Invalid
    IN  [MerkleRoot   |-> row.MerkleRoot,
         BlockHeight  |-> row.BlockHeight,
         Hash         |-> row.Hash.String,
         Confirmation |-> confmState]

ToMerkleRootConfirmationNoTipCheck(row, maxBlockHeightExcess) ==
    LET confmState ==
            IF row.Hash.Valid
            THEN Confirmed
            ELSE IF Sub32(row.BlockHeight, row.TipHeight)
                         < Int32OfSucc(maxBlockHeightExcess)
                 THEN UnableToVerify
                 ELSE Invalid
    IN  [MerkleRoot   |-> row.MerkleRoot,
         BlockHeight  |-> row.BlockHeight,
         Hash         |-> row.Hash.String,
         Confirmation |-> confmState]

\* DbMerkleRootConfirmation.ToMerkleRootConfirmation
ToMerkleRootConfirmation(row, maxBlockHeightExcess) ==
    LET confmState ==
            IF row.Hash.Valid
            THEN Confirmed
            ELSE IF /\ row.BlockHeight > row.TipHeight
                    /\ Sub32(row.BlockHeight, row.TipHeight)
                         < Int32OfSucc(maxBlockHeightExcess)
                 THEN UnableToVerify
                 ELSE Invalid
    IN  [MerkleRoot   |-> row.MerkleRoot,
         BlockHeight  |-> row.BlockHeight,
         Hash         |-> row.Hash.String,
         Confirmation |-> confmState]

-----------------------------------------------------------------------------
(* Inputs of the merkle-root conversion *)

DefaultMaxBlockHeightExcess == 6

Heights ==
    (0 .. MaxLowHeight) \cup {MaxInt32 - k : k \in 0 .. MaxLowHeight}
        \cup {MinInt32, -1}

Excesses ==
    (0 .. MaxSmallExcess) \cup {DefaultMaxBlockHeightExcess}
        \cup {MaxInt32 - 1, MaxInt32}

MerkleRoots == {"r1", "r2"}

HashColumns == {NullHash, SomeHash("h1")}

\* every row a single-row query can return
MerkleRows ==
    [MerkleRoot : MerkleRoots, BlockHeight : Heights,
     Hash : HashColumns, TipHeight : Heights]

\* rows of a multi-row result: one tip height, heights around it
BatchRows ==
    [MerkleRoot : MerkleRoots, BlockHeight : {0, 1, MaxLowHeight},
     Hash : HashColumns, TipHeight : {0}]

SeqsUpTo(S, n) == UNION {[1..k -> S] : k \in 0..n}

MerkleInputs ==
    {NilSlice}
        \cup {SliceOf(<<r>>) : r \in MerkleRows}
        \cup {SliceOf(s) : s \in SeqsUpTo(BatchRows, MaxRows)}

-----------------------------------------------------------------------------
(* ConvertToMerkleRootsConfirmations, statement by statement *)

MerkleIdle ==
    /\ mrPc = "idle"
    /\ mrIn = NilSlice
    /\ mrExcess = 0
    /\ mrIdx = 1
    /\ mrOut = NilSlice

\* entry: merklesConfms := make([]*domains.MerkleRootConfirmation, 0)
MerkleCall ==
    /\ mrPc = "idle"
    /\ \E rows \in MerkleInputs, m \in Excesses :
          /\ mrIn' = rows
          /\ mrExcess' = m
    /\ mrOut' = MakeSlice
    /\ mrIdx' = 1
    /\ mrPc' = "loop"
    /\ UNCHANGED <<dbVars, hdVars>>

AppendFront(s, x) == [isNil |-> FALSE, elems |-> <<x>> \o s.elems]

MerkleLoopBodyPrepend(out, row, m) ==
    AppendFront(out, ToMerkleRootConfirmation(row, m))

\* loop body: m := merkleConfm.ToMerkleRootConfirmation(...); append
MerkleLoopBody(out, row, m) ==
    AppendSlice(out, ToMerkleRootConfirmation(row, m))

MerkleLoop ==
    /\ mrPc = "loop"
    /\ mrIdx <= Len(mrIn.elems)
    /\ mrOut' = MerkleLoopBody(mrOut, mrIn.elems[mrIdx], mrExcess)
    /\ mrIdx' = mrIdx + 1
    /\ UNCHANGED <<mrPc, mrIn, mrExcess>>
    /\ UNCHANGED <<dbVars, hdVars>>

\* return merklesConfms
MerkleReturn ==
    /\ mrPc = "loop"
    /\ mrIdx > Len(mrIn.elems)
    /\ mrPc' = "done"
    /\ UNCHANGED <<mrIn, mrExcess, mrIdx, mrOut>>
    /\ UNCHANGED <<dbVars, hdVars>>

-----------------------------------------------------------------------------
(* Package config: database defaults *)

DBSqlite == "sqlite"

DefaultDbType == DBSqlite

DefaultPreparedDb == FALSE

\* values cfg.Type can hold (DbType is a string type)
DbTypes == {DBSqlite, "postgresql", ""}

-----------------------------------------------------------------------------
(* Package database *)

NoErr == [kind |-> "nil", detail |-> ""]

NilDb == "nil"

\* fmt.Errorf("unsupported database type %s", cfg.Type)
UnsupportedTypeErr(type) ==
    [kind |-> "unsupported database type", detail |-> type]

NewDBAdapterAcceptAll(type) ==
    [adapter |-> "SQLiteAdapter", err |-> NoErr]

\* NewDBAdapter(cfg)
NewDBAdapter(type) ==
    IF type = DBSqlite
    THEN [adapter |-> "SQLiteAdapter", err |-> NoErr]
    ELSE [adapter |-> "nil", err |-> UnsupportedTypeErr(type)]

\* results of SQLiteAdapter.Connect: a handle, or an error and no handle
AdapterConnectOutcomes ==
    {[db |-> "db1", err |-> NoErr],
     [db |-> NilDb, err |-> [kind |-> "connect failed", detail |-> ""]]}

\* results of SQLiteAdapter.DoMigrations
AdapterMigrateOutcomes ==
    {NoErr, [kind |-> "migration failed", detail |-> ""]}

\* results of ImportHeaders
ImportOutcomes ==
    {NoErr, [kind |-> "import failed", detail |-> ""]}

\* one finished call: what was called, the value and the error it returned
Invoked(op, val, err) == [op |-> op, val |-> val, err |-> err]

NoRet == [db |-> "-", err |-> NoErr]

DbIdle ==
    /\ dbPc = "idle"
    /\ dbEntry = "none"
    /\ dbLocal = NilDb
    /\ dbRet = NoRet
    /\ dbCalls = <<>>
    /\ dbHeld = NilDb
    /\ dbRuns = 0

\* the caller invokes Init(cfg, log)
CallInit ==
    /\ dbPc = "idle"
    /\ dbRuns < MaxRuns
    /\ dbEntry' = "Init"
    /\ dbPc' = "Connect"
    /\ dbLocal' = NilDb
    /\ dbRet' = NoRet
    /\ dbCalls' = <<>>
    /\ dbRuns' = dbRuns + 1
    /\ UNCHANGED <<cfgType, cfgPreparedDb, dbHeld>>
    /\ UNCHANGED <<mrVars, hdVars>>

\* the caller invokes Connect(cfg)
CallConnect ==
    /\ dbPc = "idle"
    /\ dbRuns < MaxRuns
    /\ dbEntry' = "Connect"
    /\ dbPc' = "Connect"
    /\ dbLocal' = NilDb
    /\ dbRet' = NoRet
    /\ dbCalls' = <<>>
    /\ dbRuns' = dbRuns + 1
    /\ UNCHANGED <<cfgType, cfgPreparedDb, dbHeld>>
    /\ UNCHANGED <<mrVars, hdVars>>

\* the caller invokes DoMigrations(db, cfg) with the handle it holds
CallDoMigrations ==
    /\ dbPc = "idle"
    /\ dbRuns < MaxRuns
    /\ dbEntry' = "DoMigrations"
    /\ dbPc' = "DoMigrations"
    /\ dbLocal' = dbHeld
    /\ dbRet' = NoRet
    /\ dbCalls' = <<>>
    /\ dbRuns' = dbRuns + 1
    /\ UNCHANGED <<cfgType, cfgPreparedDb, dbHeld>>
    /\ UNCHANGED <<mrVars, hdVars>>

Returned(db, err) ==
    [pc |-> "returned", ret |-> [db |-> db, err |-> err], local |-> NilDb]

\* Init: db, err := Connect(cfg.DbConfig); if err != nil { return nil, err }
InitAfterConnect(db, err) ==
    IF err /= NoErr
    THEN Returned(NilDb, err)
    ELSE [pc |-> "DoMigrations", ret |-> NoRet, local |-> db]

InitAfterDoMigrationsIgnoreErr(db, err) ==
    [pc |-> "PreparedDb", ret |-> NoRet, local |-> db]

\* Init: if err := DoMigrations(db, cfg.DbConfig); err != nil { return nil, err }
InitAfterDoMigrations(db, err) ==
    IF err /= NoErr
    THEN Returned(NilDb, err)
    ELSE [pc |-> "PreparedDb", ret |-> NoRet, local |-> db]

\* Init: if err := ImportHeaders(db, cfg, log); err != nil { return nil, err }
\*       return db, nil
InitAfterImportHeaders(db, err) ==
    IF err /= NoErr
    THEN Returned(NilDb, err)
    ELSE Returned(db, NoErr)

ImportsHeadersAlways(preparedDb) == TRUE

\* Init: if cfg.DbConfig.PreparedDb
ImportsHeaders(preparedDb) == preparedDb

\* the body of Connect, and the statement of Init that called it
ConnectStep ==
    /\ dbPc = "Connect"
    /\ LET a == NewDBAdapter(cfgType)
       IN  \E r \in IF a.err /= NoErr
                    THEN {[db |-> NilDb, err |-> a.err]}
                    ELSE AdapterConnectOutcomes :
              LET log == IF a.err /= NoErr
                         THEN <<Invoked("NewDBAdapter", a.adapter, a.err),
                                Invoked("Connect", r.db, r.err)>>
                         ELSE <<Invoked("NewDBAdapter", a.adapter, a.err),
                                Invoked("adapter.Connect", r.db, r.err),
                                Invoked("Connect", r.db, r.err)>>
                  nxt == IF dbEntry = "Connect"
                         THEN Returned(r.db, r.err)
                         ELSE InitAfterConnect(r.db, r.err)
              IN  /\ dbCalls' = dbCalls \o log
                  /\ dbPc' = nxt.pc
                  /\ dbRet' = nxt.ret
                  /\ dbLocal' = nxt.local
    /\ UNCHANGED <<cfgType, cfgPreparedDb, dbEntry, dbHeld, dbRuns>>
    /\ UNCHANGED <<mrVars, hdVars>>

\* the body of DoMigrations, and the statement of Init that called it
DoMigrationsStep ==
    /\ dbPc = "DoMigrations"
    /\ LET a == NewDBAdapter(cfgType)
       IN  \E e \in IF a.err /= NoErr
                    THEN {a.err}
                    ELSE AdapterMigrateOutcomes :
              LET log == IF a.err /= NoErr
                         THEN <<Invoked("NewDBAdapter", a.adapter, a.err),
                                Invoked("DoMigrations", "-", e)>>
                         ELSE <<Invoked("NewDBAdapter", a.adapter, a.err),
                                Invoked("adapter.DoMigrations", "-", e),
                                Invoked("DoMigrations", "-", e)>>
                  nxt == IF dbEntry = "DoMigrations"
                         THEN Returned("-", e)
                         ELSE InitAfterDoMigrations(dbLocal, e)
              IN  /\ dbCalls' = dbCalls \o log
                  /\ dbPc' = nxt.pc
                  /\ dbRet' = nxt.ret
                  /\ dbLocal' = nxt.local
    /\ UNCHANGED <<cfgType, cfgPreparedDb, dbEntry, dbHeld, dbRuns>>
    /\ UNCHANGED <<mrVars, hdVars>>

\* Init, lines 30-36: the optional import and the final return
PreparedDbStep ==
    /\ dbPc = "PreparedDb"
    /\ IF ImportsHeaders(cfgPreparedDb)
       THEN \E e \in ImportOutcomes :
               LET nxt == InitAfterImportHeaders(dbLocal, e)
               IN  /\ dbCalls' = Append(dbCalls, Invoked("ImportHeaders", "-", e))
                   /\ dbPc' = nxt.pc
                   /\ dbRet' = nxt.ret
                   /\ dbLocal' = nxt.local
       ELSE LET nxt == Returned(dbLocal, NoErr)
            IN  /\ dbCalls' = dbCalls
                /\ dbPc' = nxt.pc
                /\ dbRet' = nxt.ret
                /\ dbLocal' = nxt.local
    /\ UNCHANGED <<cfgType, cfgPreparedDb, dbEntry, dbHeld, dbRuns>>
    /\ UNCHANGED <<mrVars, hdVars>>

\* the caller takes the result and goes on; it keeps a handle it was given
CallerContinues ==
    /\ dbPc = "returned"
    /\ dbRuns < MaxRuns
    /\ dbPc' = "idle"
    /\ dbHeld' = IF dbRet.db \in {NilDb, "-"} THEN dbHeld ELSE dbRet.db
    /\ UNCHANGED <<cfgType, cfgPreparedDb, dbEntry, dbLocal, dbRet, dbCalls,
                   dbRuns>>
    /\ UNCHANGED <<mrVars, hdVars>>

-----------------------------------------------------------------------------
(* Strings are sequences of one-character strings *)

Digits == <<"0", "1", "2", "3", "4", "5", "6", "7", "8", "9">>

HexDigits == <<"0", "1", "2", "3", "4", "5", "6", "7", "8", "9",
               "a", "b", "c", "d", "e", "f">>

IndexOf(seq, c) == CHOOSE i \in DOMAIN seq : seq[i] = c

IsDigit(c) == \E i \in DOMAIN Digits : Digits[i] = c

IsHexDigit(c) == \E i \in DOMAIN HexDigits : HexDigits[i] = c

Front(s) == SubSeq(s, 1, Len(s) - 1)

Reverse(s) == [i \in 1 .. Len(s) |-> s[Len(s) + 1 - i]]

-----------------------------------------------------------------------------
(* math/big: Int.String and Int.SetString(s, 10) *)

RECURSIVE NatToDec(_)
NatToDec(n) ==
    IF n < 10
    THEN <<Digits[n + 1]>>
    ELSE NatToDec(n \div 10) \o <<Digits[(n % 10) + 1]>>

\* Int.String(): decimal digits, "-" in front of a negative value
BigString(n) == IF n < 0 THEN <<"-">> \o NatToDec(0 - n) ELSE NatToDec(n)

RECURSIVE DecToNat(_)
DecToNat(s) ==
    IF s = <<>>
    THEN 0
    ELSE DecToNat(Front(s)) * 10 + (IndexOf(Digits, s[Len(s)]) - 1)

\* Int.SetString(s, 10): an optional sign, then one or more decimal
\* digits, and nothing else; ok is false otherwise
SetString10(s) ==
    LET signed == s /= <<>> /\ s[1] \in {"+", "-"}
        body   == IF signed THEN SubSeq(s, 2, Len(s)) ELSE s
        ok     == body /= <<>> /\ \A i \in DOMAIN body : IsDigit(body[i])
    IN  IF ~ok
        THEN [ok |-> FALSE, val |-> 0]
        ELSE [ok |-> TRUE,
              val |-> IF signed /\ s[1] = "-"
                      THEN 0 - DecToNat(body)
                      ELSE DecToNat(body)]

-----------------------------------------------------------------------------
(* chainhash: Hash.String and NewHashFromStr *)

ByteToHex(b) == <<HexDigits[(b \div 16) + 1], HexDigits[(b % 16) + 1]>>

RECURSIVE HexEncode(_)
HexEncode(bytes) ==
    IF bytes = <<>>
    THEN <<>>
    ELSE ByteToHex(bytes[1]) \o HexEncode(SubSeq(bytes, 2, Len(bytes)))

RECURSIVE HexDecode(_)
HexDecode(str) ==
    IF str = <<>>
    THEN <<>>
    ELSE <<(IndexOf(HexDigits, str[1]) - 1) * 16
              + (IndexOf(HexDigits, str[2]) - 1)>>
            \o HexDecode(SubSeq(str, 3, Len(str)))

\* Hash.String(): the hexadecimal string of the byte-reversed hash
HashString(hash) == HexEncode(Reverse(hash))

\* NewHashFromStr: the string must not be longer than 2 * HashSize and must
\* be hexadecimal; a short string stands for a hash with leading zero bytes
NewHashFromStr(str) ==
    IF \/ Len(str) > 2 * HashSize
       \/ \E i \in DOMAIN str : ~IsHexDigit(str[i])
    THEN [ok |-> FALSE, hash |-> <<>>]
    ELSE LET even  == IF Len(str) % 2 = 1 THEN <<"0">> \o str ELSE str
             bytes == HexDecode(even)
             pad   == [i \in 1 .. (HashSize - Len(bytes)) |-> 0]
         IN  [ok |-> TRUE, hash |-> Reverse(pad \o bytes)]

\* HeaderState.String() and the conversion HeaderState(string)
HeaderStateString(state) == state

-----------------------------------------------------------------------------
(* dto.DbBlockHeader <-> domains.BlockHeader *)

ToDbBlockHeaderSwapWork(bh) ==
    [Height        |-> bh.Height,
     Hash          |-> HashString(bh.Hash),
     Version       |-> bh.Version,
     MerkleRoot    |-> HashString(bh.MerkleRoot),
     Timestamp     |-> bh.Timestamp,
     Bits          |-> bh.Bits,
     Nonce         |-> bh.Nonce,
     State         |-> HeaderStateString(bh.State),
     Chainwork     |-> BigString(bh.CumulatedWork),
     CumulatedWork |-> BigString(bh.Chainwork),
     PreviousBlock |-> HashString(bh.PreviousBlock)]

\* ToDbBlockHeader(bh)
ToDbBlockHeader(bh) ==
    [Height        |-> bh.Height,
     Hash          |-> HashString(bh.Hash),
     Version       |-> bh.Version,
     MerkleRoot    |-> HashString(bh.MerkleRoot),
     Timestamp     |-> bh.Timestamp,
     Bits          |-> bh.Bits,
     Nonce         |-> bh.Nonce,
     State         |-> HeaderStateString(bh.State),
     Chainwork     |-> BigString(bh.Chainwork),
     CumulatedWork |-> BigString(bh.CumulatedWork),
     PreviousBlock |-> HashString(bh.PreviousBlock)]

NoHeader == [panic |-> TRUE]

ToBlockHeaderNormalisesBoth(dbh) ==
    LET row0  == IF dbh.CumulatedWork = <<>>
                 THEN [dbh EXCEPT !.CumulatedWork = <<"0">>]
                 ELSE dbh
        row   == IF row0.Chainwork = <<>>
                 THEN [row0 EXCEPT !.Chainwork = <<"0">>]
                 ELSE row0
        cw    == SetString10(row.CumulatedWork)
        w     == SetString10(row.Chainwork)
        hash  == NewHashFromStr(row.Hash)
        root  == NewHashFromStr(row.MerkleRoot)
        prev  == NewHashFromStr(row.PreviousBlock)
    IN  [row |-> row,
         header |->
            IF ~hash.ok \/ ~root.ok \/ ~prev.ok
            THEN NoHeader
            ELSE [panic         |-> FALSE,
                  Height        |-> row.Height,
                  Hash          |-> hash.hash,
                  Version       |-> row.Version,
                  MerkleRoot    |-> root.hash,
                  Timestamp     |-> row.Timestamp,
                  Bits          |-> row.Bits,
                  Nonce         |-> row.Nonce,
                  Chainwork     |-> IF w.ok THEN w.val ELSE 0,
                  CumulatedWork |-> IF cw.ok THEN cw.val ELSE 0,
                  State         |-> row.State,
                  PreviousBlock |-> prev.hash]]

\* DbBlockHeader.ToBlockHeader: row is the receiver afterwards;
\* dereferencing the nil hash of a failed NewHashFromStr panics
ToBlockHeader(dbh) ==
    LET row   == IF dbh.CumulatedWork = <<>>
                 THEN [dbh EXCEPT !.CumulatedWork = <<"0">>]
                 ELSE dbh
        cw    == SetString10(row.CumulatedWork)
        w     == SetString10(row.Chainwork)
        hash  == NewHashFromStr(row.Hash)
        root  == NewHashFromStr(row.MerkleRoot)
        prev  == NewHashFromStr(row.PreviousBlock)
    IN  [row |-> row,
         header |->
            IF ~hash.ok \/ ~root.ok \/ ~prev.ok
            THEN NoHeader
            ELSE [panic         |-> FALSE,
                  Height        |-> row.Height,
                  Hash          |-> hash.hash,
                  Version       |-> row.Version,
                  MerkleRoot    |-> root.hash,
                  Timestamp     |-> row.Timestamp,
                  Bits          |-> row.Bits,
                  Nonce         |-> row.Nonce,
                  Chainwork     |-> IF w.ok THEN w.val ELSE 0,
                  CumulatedWork |-> IF cw.ok THEN cw.val ELSE 0,
                  State         |-> row.State,
                  PreviousBlock |-> prev.hash]]

-----------------------------------------------------------------------------
(* Inputs of the block header conversions *)

SampleBytes == {0, 10, 255}

Hashes == [1 .. HashSize -> SampleBytes]

ZeroHash == [i \in 1 .. HashSize |-> 0]

OtherHash == [i \in 1 .. HashSize |-> IF i = 1 THEN 10 ELSE 255]

Works == (0 .. MaxSmallWork) \cup {100, 101, MaxInt32}

HeaderStates == {"LONGEST_CHAIN", "STALE"}

\* headers the chain service hands to the repository
DomainHeaders ==
    [panic : {FALSE}, Height : {0, 5}, Hash : Hashes, Version : {1},
     MerkleRoot : {ZeroHash, OtherHash}, Timestamp : {1231006505},
     Bits : {486604799}, Nonce : {2083236893},
     Chainwork : Works, CumulatedWork : Works,
     State : HeaderStates, PreviousBlock : {ZeroHash, OtherHash}]

WorkAlphabet == {"0", "7", "-", "+", "x"}

WorkColumns == SeqsUpTo(WorkAlphabet, MaxWorkLen)

GoodHashColumn == HashString(OtherHash)

BadHashColumn == <<"z", "z">>

\* rows as a query can return them: any text in the work columns
DbRows ==
    [Height : {5}, Hash : {GoodHashColumn, BadHashColumn}, Version : {1},
     MerkleRoot : {GoodHashColumn}, Timestamp : {1231006505},
     Bits : {486604799}, Nonce : {2083236893}, State : {"STALE"},
     Chainwork : WorkColumns, CumulatedWork : WorkColumns,
     PreviousBlock : {GoodHashColumn, <<"0">>}]

\* rows of a multi-row result
BatchDbRows ==
    [Height : {5}, Hash : {GoodHashColumn, BadHashColumn}, Version : {1},
     MerkleRoot : {GoodHashColumn}, Timestamp : {1231006505},
     Bits : {486604799}, Nonce : {2083236893}, State : {"STALE"},
     Chainwork : {<<>>, <<"7">>}, CumulatedWork : {<<>>, <<"-", "7">>},
     PreviousBlock : {GoodHashColumn}]

HeaderInputs ==
    {NilSlice}
        \cup {SliceOf(<<r>>) : r \in DbRows}
        \cup {SliceOf(s) : s \in SeqsUpTo(BatchDbRows, MaxRows)}

-----------------------------------------------------------------------------
(* ConvertToBlockHeader, statement by statement *)

HeaderIdle ==
    /\ hdPc = "idle"
    /\ hdSrc = <<>>
    /\ hdOrig = NilSlice
    /\ hdIn = NilSlice
    /\ hdIdx = 1
    /\ hdOut = NilSlice

\* rows read from the database are handed to ConvertToBlockHeader
HeaderCall ==
    /\ hdPc = "idle"
    /\ \E rows \in HeaderInputs :
          /\ hdOrig' = rows
          /\ hdIn' = rows
    /\ hdSrc' = <<>>
    /\ hdOut' = NilSlice
    /\ hdIdx' = 1
    /\ hdPc' = IF hdIn'.isNil THEN "done" ELSE "loop"
    /\ UNCHANGED <<mrVars, dbVars>>

\* a header is converted with ToDbBlockHeader for saving, and the saved row
\* is handed to ConvertToBlockHeader
HeaderSaveAndCall ==
    /\ hdPc = "idle"
    /\ \E bh \in DomainHeaders :
          /\ hdSrc' = <<bh>>
          /\ hdOrig' = SliceOf(<<ToDbBlockHeader(bh)>>)
          /\ hdIn' = SliceOf(<<ToDbBlockHeader(bh)>>)
    /\ hdOut' = NilSlice
    /\ hdIdx' = 1
    /\ hdPc' = "loop"
    /\ UNCHANGED <<mrVars, dbVars>>

\* loop body: h := header.ToBlockHeader(); blockHeaders = append(...)
HeaderLoop ==
    /\ hdPc = "loop"
    /\ hdIdx <= Len(hdIn.elems)
    /\ LET r == ToBlockHeader(hdIn.elems[hdIdx])
       IN  /\ hdIn' = [hdIn EXCEPT !.elems[hdIdx] = r.row]
           /\ IF r.header.panic
              THEN /\ hdPc' = "panic"
                   /\ UNCHANGED <<hdOut, hdIdx>>
              ELSE /\ hdOut' = AppendSlice(hdOut, r.header)
                   /\ hdIdx' = hdIdx + 1
                   /\ hdPc' = hdPc
    /\ UNCHANGED <<hdSrc, hdOrig>>
    /\ UNCHANGED <<mrVars, dbVars>>

\* return blockHeaders
HeaderReturn ==
    /\ hdPc = "loop"
    /\ hdIdx > Len(hdIn.elems)
    /\ hdPc' = "done"
    /\ UNCHANGED <<hdSrc, hdOrig, hdIn, hdIdx, hdOut>>
    /\ UNCHANGED <<mrVars, dbVars>>

-----------------------------------------------------------------------------
(* Specifications *)

\* the configuration is loaded before the database package is used
DbInit ==
    /\ cfgType \in DbTypes
    /\ cfgPreparedDb \in BOOLEAN
    /\ DbIdle
    /\ MerkleIdle
    /\ HeaderIdle

DbNext ==
    \/ CallInit
    \/ CallConnect
    \/ CallDoMigrations
    \/ ConnectStep
    \/ DoMigrationsStep
    \/ PreparedDbStep
    \/ CallerContinues

SpecDb == DbInit /\ [][DbNext]_vars

MerkleInit ==
    /\ MerkleIdle
    /\ cfgType = DefaultDbType
    /\ cfgPreparedDb = DefaultPreparedDb
    /\ DbIdle
    /\ HeaderIdle

MerkleNext == MerkleCall \/ MerkleLoop \/ MerkleReturn

SpecMerkle == MerkleInit /\ [][MerkleNext]_vars

HeaderInit ==
    /\ HeaderIdle
    /\ cfgType = DefaultDbType
    /\ cfgPreparedDb = DefaultPreparedDb
    /\ DbIdle
    /\ MerkleIdle

HeaderNext == HeaderCall \/ HeaderSaveAndCall \/ HeaderLoop \/ HeaderReturn

SpecHeader == HeaderInit /\ [][HeaderNext]_vars

-----------------------------------------------------------------------------
(* Reference arithmetic on unbounded integers, used to state the claims.   *)
(* Every intermediate value stays inside the int32 range.                  *)

\* bh - th, for bh > th, is at most MaxInt32
ExactDiffFits(bh, th) == ~(th < 0 /\ bh > MaxInt32 + th)

\* bh > th and bh - th <= m over the integers
ExceedsTipByAtMost(bh, th, m) ==
    /\ bh > th
    /\ ExactDiffFits(bh, th)
    /\ bh - th <= m

\* bh = th + d over the integers, for 0 <= d <= MaxInt32
IsSum(bh, th, d) == th <= MaxInt32 - d /\ bh = th + d

\* the confirmation state as section 3 of the specification defines it
RefState(row, m) ==
    IF row.Hash.Valid
    THEN Confirmed
    ELSE IF ExceedsTipByAtMost(row.BlockHeight, row.TipHeight, m)
         THEN UnableToVerify
         ELSE Invalid

\* rows of the input whose confirmation has been appended to the result
Converted == 1 .. Len(mrOut.elems)

-----------------------------------------------------------------------------
(* Claims about the merkle-root confirmation conversion *)

\* C1: for every row with non-negative heights and every excess below the
\* int32 limit, the returned state is one of the three states and equals the
\* reference definition (Confirmed if the hash is present, UnableToVerify if
\* BlockHeight > TipHeight and BlockHeight - TipHeight <= excess, Invalid
\* otherwise); a present hash gives Confirmed whatever the heights, and no
\* hash with BlockHeight <= TipHeight gives Invalid.
C1_MatchesReference ==
    \A i \in Converted :
        LET row == mrIn.elems[i]
            c   == mrOut.elems[i]
        IN  /\ c.Confirmation \in ConfirmationStates
            /\ (row.BlockHeight >= 0 /\ row.TipHeight >= 0
                    /\ mrExcess < MaxInt32)
                  => c.Confirmation = RefState(row, mrExcess)
            /\ row.Hash.Valid => c.Confirmation = Confirmed
            /\ (~row.Hash.Valid /\ row.BlockHeight <= row.TipHeight)
                  => c.Confirmation = Invalid

C1_Witness ==
    /\ mrPc = "done"
    /\ Len(mrOut.elems) = 1
    /\ ~mrIn.elems[1].Hash.Valid
    /\ mrIn.elems[1].TipHeight = 2
    /\ mrIn.elems[1].BlockHeight = 5
    /\ mrExcess = 3
    /\ mrOut.elems[1].Confirmation = UnableToVerify

\* C2 as stated: for a row without hash, BlockHeight = TipHeight + excess is
\* UnableToVerify and BlockHeight = TipHeight + excess + 1 is Invalid for
\* every excess >= 0, 0 included; a present hash is Confirmed.  (Stated here
\* for tip heights >= 0 and the excesses whose successor fits int32; C9 is
\* about the others.)
C2_Original ==
    \A i \in Converted :
        LET row == mrIn.elems[i]
            c   == mrOut.elems[i]
        IN  /\ row.Hash.Valid => c.Confirmation = Confirmed
            /\ (~row.Hash.Valid /\ row.TipHeight >= 0 /\ mrExcess < MaxInt32
                    /\ IsSum(row.BlockHeight, row.TipHeight, mrExcess))
                  => c.Confirmation = UnableToVerify
            /\ (~row.Hash.Valid /\ row.TipHeight >= 0 /\ mrExcess < MaxInt32
                    /\ IsSum(row.BlockHeight, row.TipHeight, mrExcess + 1))
                  => c.Confirmation = Invalid

\* C2 amended: for a row without hash and 1 <= excess <= MaxInt32 - 1,
\* BlockHeight = TipHeight + excess is UnableToVerify; for 0 <= excess <=
\* MaxInt32 - 1, BlockHeight = TipHeight + excess + 1 is Invalid; with excess
\* 0, BlockHeight = TipHeight is Invalid; a present hash is Confirmed.
C2_Boundary ==
    \A i \in Converted :
        LET row == mrIn.elems[i]
            c   == mrOut.elems[i]
        IN  /\ row.Hash.Valid => c.Confirmation = Confirmed
            /\ (~row.Hash.Valid /\ mrExcess >= 1 /\ mrExcess < MaxInt32
                    /\ IsSum(row.BlockHeight, row.TipHeight, mrExcess))
                  => c.Confirmation = UnableToVerify
            /\ (~row.Hash.Valid /\ mrExcess < MaxInt32
                    /\ IsSum(row.BlockHeight, row.TipHeight, mrExcess + 1))
                  => c.Confirmation = Invalid
            /\ (~row.Hash.Valid /\ mrExcess = 0
                    /\ row.BlockHeight = row.TipHeight)
                  => c.Confirmation = Invalid

C2_Witness ==
    /\ mrPc = "done"
    /\ Len(mrOut.elems) = 1
    /\ ~mrIn.elems[1].Hash.Valid
    /\ mrExcess = DefaultMaxBlockHeightExcess
    /\ mrIn.elems[1].TipHeight = MaxInt32 - DefaultMaxBlockHeightExcess
    /\ mrIn.elems[1].BlockHeight = MaxInt32
    /\ mrOut.elems[1].Confirmation = UnableToVerify

\* C8: the result holds one confirmation per input row in input order, the
\* i-th carrying the i-th row's MerkleRoot, BlockHeight and own state; the
\* result is never nil, also for a nil or empty input.
C8_OnePerRowInOrder ==
    /\ mrPc /= "idle" => ~mrOut.isNil
    /\ mrPc = "loop" => Len(mrOut.elems) = mrIdx - 1
    /\ mrPc = "done" =>
          /\ Len(mrOut.elems) = Len(mrIn.elems)
          /\ \A i \in 1 .. Len(mrIn.elems) :
                /\ mrOut.elems[i].MerkleRoot = mrIn.elems[i].MerkleRoot
                /\ mrOut.elems[i].BlockHeight = mrIn.elems[i].BlockHeight
                /\ mrOut.elems[i].Hash = mrIn.elems[i].Hash.String
                /\ mrOut.elems[i] =
                      ToMerkleRootConfirmation(mrIn.elems[i], mrExcess)

C8_Witness ==
    /\ mrPc = "done"
    /\ Len(mrIn.elems) = 2
    /\ mrIn.elems[1] = mrIn.elems[2]
    /\ Len(mrOut.elems) = 2
    /\ mrOut.elems[1] = mrOut.elems[2]

\* C9: for every int32 BlockHeight, every TipHeight and every excess in
\* 0..MaxInt32, a row without hash is UnableToVerify exactly when
\* BlockHeight > TipHeight and BlockHeight - TipHeight <= excess holds over
\* the unbounded integers.  (Stated here for the tip heights a chain can
\* have, TipHeight >= 0; the claim extends it to negative ones.)
C9_NoOverflowEffect ==
    \A i \in Converted :
        LET row == mrIn.elems[i]
            c   == mrOut.elems[i]
        IN  (~row.Hash.Valid /\ row.TipHeight >= 0) =>
               (c.Confirmation = UnableToVerify
                  <=> ExceedsTipByAtMost(row.BlockHeight, row.TipHeight,
                                         mrExcess))

-----------------------------------------------------------------------------
(* Claims about package database *)

InitSteps == {"Connect", "DoMigrations", "ImportHeaders"}

AdapterOps == {"adapter.Connect", "adapter.DoMigrations"}

IsInitStep(c) == c.op \in InitSteps

\* the steps Init has executed so far, in order
StepsDone == SelectSeq(dbCalls, IsInitStep)

Has(op) == \E i \in DOMAIN dbCalls : dbCalls[i].op = op

Succeeded(op) ==
    \E i \in DOMAIN dbCalls : dbCalls[i].op = op /\ dbCalls[i].err = NoErr

IsPrefix(s, t) == Len(s) <= Len(t) /\ \A i \in 1 .. Len(s) : s[i] = t[i]

\* C3: in a run of Init the steps are executed in the order Connect,
\* DoMigrations, ImportHeaders, each at most once; ImportHeaders is invoked
\* only with PreparedDb set and after Connect and DoMigrations succeeded, and
\* when Init has returned it was invoked exactly in that case.
C3_InitOrder ==
    dbEntry = "Init" =>
       /\ IsPrefix([i \in 1 .. Len(StepsDone) |-> StepsDone[i].op],
                   <<"Connect", "DoMigrations", "ImportHeaders">>)
       /\ Has("ImportHeaders") =>
             /\ cfgPreparedDb
             /\ Succeeded("Connect")
             /\ Succeeded("DoMigrations")
       /\ (dbPc \in {"returned", "idle"}
              /\ cfgPreparedDb
              /\ Succeeded("Connect")
              /\ Succeeded("DoMigrations"))
             => Has("ImportHeaders")

C3_Witness ==
    /\ dbEntry = "Init"
    /\ dbPc = "returned"
    /\ Len(StepsDone) = 3
    /\ StepsDone[3].op = "ImportHeaders"
    /\ dbRet.db = "db1"

\* C4: NewDBAdapter gives the SQLite adapter and no error exactly for the
\* sqlite type; for any other type it gives no adapter and the unsupported
\* type error, which Connect and DoMigrations return without any adapter
\* operation having been called; with the default type it never fails.
C4_AdapterSelection ==
    /\ \A i \in DOMAIN dbCalls :
          dbCalls[i].op = "NewDBAdapter" =>
             /\ (dbCalls[i].err = NoErr /\ dbCalls[i].val = "SQLiteAdapter")
                   <=> cfgType = DBSqlite
             /\ cfgType /= DBSqlite =>
                   /\ dbCalls[i].val = "nil"
                   /\ dbCalls[i].err = UnsupportedTypeErr(cfgType)
    /\ (dbPc = "returned" /\ cfgType /= DBSqlite) =>
          /\ dbRet.err = UnsupportedTypeErr(cfgType)
          /\ dbRet.db \in {NilDb, "-"}
          /\ \A i \in DOMAIN dbCalls : dbCalls[i].op \notin AdapterOps
    /\ cfgType = DefaultDbType =>
          \A i \in DOMAIN dbCalls :
             dbCalls[i].err.kind /= "unsupported database type"

C4_Witness ==
    /\ dbEntry = "DoMigrations"
    /\ dbPc = "returned"
    /\ cfgType = "postgresql"
    /\ dbRet.err = UnsupportedTypeErr("postgresql")

\* C7: Init returns a handle exactly when every executed step succeeded; a
\* failed step is the last one executed, and Init then returns no handle
\* and that step's error.
C7_InitFailFast ==
    dbEntry = "Init" =>
       /\ \A i \in 1 .. Len(StepsDone) :
             StepsDone[i].err /= NoErr => i = Len(StepsDone)
       /\ (\E i \in 1 .. Len(StepsDone) : StepsDone[i].err /= NoErr)
             => dbPc \in {"returned", "idle"}
       /\ dbPc \in {"returned", "idle"} =>
             /\ dbRet.db /= NilDb
                   <=> \A i \in 1 .. Len(StepsDone) : StepsDone[i].err = NoErr
             /\ dbRet.db /= NilDb => dbRet = [db |-> "db1", err |-> NoErr]
             /\ \A i \in 1 .. Len(StepsDone) :
                   StepsDone[i].err /= NoErr =>
                      dbRet = [db |-> NilDb, err |-> StepsDone[i].err]

C7_Witness ==
    /\ dbEntry = "Init"
    /\ dbPc = "returned"
    /\ cfgPreparedDb
    /\ Len(StepsDone) = 2
    /\ StepsDone[2].err.kind = "migration failed"
    /\ dbRet = [db |-> NilDb, err |-> StepsDone[2].err]

-----------------------------------------------------------------------------
(* Claims about the block header conversions *)

\* rows of the input whose header has been appended to the result
Loaded == 1 .. Len(hdOut.elems)

\* the text is an optional sign followed by one or more decimal digits
IsBase10Integer(str) ==
    \E k \in 0 .. 1 :
        /\ Len(str) > k
        /\ k = 1 => str[1] \in {"+", "-"}
        /\ \A i \in (k + 1) .. Len(str) :
              str[i] \in {"0", "1", "2", "3", "4", "5", "6", "7", "8", "9"}

IsHexText(str) ==
    \A i \in DOMAIN str :
        str[i] \in {"0", "1", "2", "3", "4", "5", "6", "7", "8", "9",
                    "a", "b", "c", "d", "e", "f"}

\* C5: a header with non-negative Chainwork and CumulatedWork that is
\* converted by ToDbBlockHeader and back by ToBlockHeader is equal to the
\* original in every field, the two work values numerically; the conversion
\* back never fails on such a row.
C5_RoundTrip ==
    hdSrc /= <<>> =>
       /\ hdPc /= "panic"
       /\ \A i \in Loaded :
             LET bh == hdSrc[i]
                 h  == hdOut.elems[i]
             IN  (bh.Chainwork >= 0 /\ bh.CumulatedWork >= 0) =>
                    /\ h.Height = bh.Height
                    /\ h.Hash = bh.Hash
                    /\ h.Version = bh.Version
                    /\ h.MerkleRoot = bh.MerkleRoot
                    /\ h.Timestamp = bh.Timestamp
                    /\ h.Bits = bh.Bits
                    /\ h.Nonce = bh.Nonce
                    /\ h.State = bh.State
                    /\ h.PreviousBlock = bh.PreviousBlock
                    /\ h.Chainwork = bh.Chainwork
                    /\ h.CumulatedWork = bh.CumulatedWork
       /\ hdPc = "done" => Len(hdOut.elems) = Len(hdSrc)

C5_Witness ==
    /\ hdPc = "done"
    /\ Len(hdSrc) = 1
    /\ Len(hdOut.elems) = 1
    /\ hdSrc[1].Chainwork = 101
    /\ hdSrc[1].CumulatedWork = MaxInt32
    /\ hdSrc[1].Hash /= Reverse(hdSrc[1].Hash)
    /\ hdOrig.elems[1].Chainwork = <<"1", "0", "1">>
    /\ hdOut.elems[1].Chainwork = 101

\* C6: every header produced by ToBlockHeader has a non-negative Chainwork
\* and a non-negative CumulatedWork, whatever text the chainwork and
\* cumulatedWork columns of the row hold.
C6_WorkNonNegative ==
    \A i \in Loaded :
        /\ hdOut.elems[i].Chainwork >= 0
        /\ hdOut.elems[i].CumulatedWork >= 0

\* C10: a malformed work column never makes ToBlockHeader fail: a
\* cumulatedWork or chainwork text that is empty or not a base-10 integer
\* gives the value 0; the receiver row is changed only by an empty
\* CumulatedWork becoming "0"; ConvertToBlockHeader returns nil for nil and
\* otherwise one header per row in input order.
C10_MalformedWork ==
    /\ \A i \in Loaded :
          LET orig == hdOrig.elems[i]
              h    == hdOut.elems[i]
          IN  /\ ~IsBase10Integer(orig.CumulatedWork) => h.CumulatedWork = 0
              /\ ~IsBase10Integer(orig.Chainwork) => h.Chainwork = 0
              /\ IsBase10Integer(orig.Chainwork)
                    => h.Chainwork = SetString10(orig.Chainwork).val
              /\ IsBase10Integer(orig.CumulatedWork)
                    => h.CumulatedWork = SetString10(orig.CumulatedWork).val
              /\ h.Height = orig.Height
    /\ \A i \in 1 .. Len(hdIn.elems) :
          hdIn.elems[i] =
             IF (i \in Loaded \/ (hdPc = "panic" /\ i = hdIdx))
                   /\ hdOrig.elems[i].CumulatedWork = <<>>
             THEN [hdOrig.elems[i] EXCEPT !.CumulatedWork = <<"0">>]
             ELSE hdOrig.elems[i]
    /\ hdPc = "panic" =>
          LET orig == hdOrig.elems[hdIdx]
          IN  \/ ~IsHexText(orig.Hash)
              \/ ~IsHexText(orig.MerkleRoot)
              \/ ~IsHexText(orig.PreviousBlock)
    /\ hdPc = "done" =>
          /\ Len(hdOut.elems) = Len(hdOrig.elems)
          /\ hdOrig.isNil => hdOut.isNil

C10_Witness ==
    /\ hdPc = "done"
    /\ Len(hdOut.elems) = 2
    /\ hdOrig.elems[1].CumulatedWork = <<>>
    /\ hdIn.elems[1].CumulatedWork = <<"0">>
    /\ hdOrig.elems[1].Chainwork = <<>>
    /\ hdIn.elems[1].Chainwork = <<>>
    /\ hdOut.elems[1].Chainwork = 0
    /\ hdOut.elems[1].CumulatedWork = 0
    /\ hdOrig.elems[2].Chainwork = <<"7">>
    /\ hdOut.elems[2].Chainwork = 7

====
